---- MODULE Spec2Model ----
(***************************************************************************)
(* Model of the stagiaire string interner (src/src/lib.rs).                *)
(*                                                                         *)
(* Memory is byte addressed.  A &str is a fat pointer [ptr, len]; its text *)
(* is the bytes heap[ptr .. ptr+len-1].  The pool STRINGS is a set of fat  *)
(* pointers hashed and compared by the text they point to, guarded by one  *)
(* Mutex and created by a lazy_static Once.  Every thread runs             *)
(* Symbol::new -> intern step by step, and copies the Symbol it holds.     *)
(***************************************************************************)
EXTENDS Integers, Sequences, FiniteSets

\* ---------------------------------------------------------------- bounds
NumThreads == 2
MaxAddr == 5

\* ------------------------------------------------------------- constants
Threads == 1..NumThreads
\* Address 0 is null; address 1 is NonNull::<u8>::dangling(), the buffer
\* pointer of a String of capacity 0.  The allocator hands out real
\* addresses only.
Dangling == 1
Addr == 2..MaxAddr
FREE == "free"
\* No thread (the Mutex is free), and the placeholders of a thread that holds
\* no reference or Symbol yet: a null pointer, which no &str ever is.
NoThread == 0
NullRef == [ptr |-> 0, len |-> 0]
NoSymbol == [inner |-> NullRef]
\* No operation was applied to the thread's Symbol yet.
NoObs == [other |-> NoSymbol, str |-> NullRef, text |-> <<>>, eq |-> FALSE, eq_str |-> FALSE,
          str_eq |-> FALSE, hash |-> <<>>]
Chars == {"a", "b"}
\* The text values the callers intern: the empty text, two texts of the
\* same length, and a text one of them is a prefix of.
Texts == {<<>>, <<"a">>, <<"b">>, <<"a", "b">>}

VARIABLES
    heap,      \* [Addr -> Chars \cup {FREE}]: the bytes of the leaked buffers
    leaked,    \* the &'static str values produced by Box::leak
    nleaked,   \* how many Box<String> were leaked
    STRINGS,   \* the HashSet<&'static str> inside the Mutex
    once,      \* state of the lazy_static Once: incomplete, running, complete
    mutex,     \* the thread holding the lock of STRINGS, or NoThread
    aborted,   \* the process was aborted by an allocation failure
    poisoned,  \* the poison flag of the Mutex (a holder panicked)
    pc,        \* per thread: position inside Symbol::new / intern
    arg,       \* per thread: the text passed to Symbol::new
    s,         \* per thread: the local `s` of intern (a fat pointer)
    sym,       \* per thread: the Symbol its last Symbol::new returned
    copy,      \* per thread: a copy of sym (let sym2 = sym1)
    returned,  \* history: every (argument, Symbol) pair Symbol::new returned
    obs,       \* per thread: what the operations on its Symbol last gave
    via        \* per thread: the entry point of its call, new or from

vars == <<heap, leaked, nleaked, STRINGS, once, mutex, aborted, poisoned, pc, arg, s, sym, copy, returned, obs, via>>

\* ------------------------------------------------------------ str values
StrRef(p, n) == [ptr |-> p, len |-> n]

\* The text a &str points to: len bytes read from heap h.
ContentIn(h, r) == [i \in 1..r.len |-> h[r.ptr + i - 1]]
Content(r) == ContentIn(heap, r)

\* str == str (slice comparison): same length and the same bytes.
StrEq(x, y) == Len(x) = Len(y) /\ \A i \in 1..Len(x) : x[i] = y[i]

\* ------------------------------------------------------------ the pool
\* (mutant) the copy loses its last byte.
to_string_Truncated(str) == [i \in 1..(Len(str) - 1) |-> str[i]]

\* str::to_string: a new String owning a copy of the bytes of str.
to_string(str) == [i \in 1..Len(str) |-> str[i]]

\* (mutant) the String is dropped instead of leaked: its bytes are handed
\* out again.
FreeBases_Reuse(h, n) == {b \in Addr : \A i \in 0..(n - 1) : (b + i) \in Addr}

\* The base addresses at which the allocator can place a buffer of n bytes
\* in heap h: n consecutive bytes that belong to no live allocation.
\* Nothing is ever freed, so every earlier allocation is live.
FreeBases(h, n) == {b \in Addr : \A i \in 0..(n - 1) : (b + i) \in Addr /\ h[b + i] = FREE}

\* The heap after the bytes of a String were placed at base b.
Store(h, b, bytes) ==
    [a \in Addr |-> IF a \in b..(b + Len(bytes) - 1) THEN bytes[a - b + 1] ELSE h[a]]

\* (mutant) entries are matched by length alone.
HashSetGet_ByLen(set, str) == {e \in set : e.len = Len(str)}

\* (mutant) entries are matched when they start with str.
HashSetGet_Prefix(set, str) ==
    {e \in set : e.len >= Len(str) /\ \A i \in 1..Len(str) : Content(e)[i] = str[i]}

\* (mutant) entries are compared by address: the caller's str is no entry.
HashSetGet_Miss(set, str) == {}

\* HashSet::get(str): the entries whose text equals str (Borrow<str>: the
\* set hashes and compares its &'static str elements by their text).
HashSetGet(set, str) == {e \in set : StrEq(Content(e), str)}

\* (mutant) the new reference is never put in the set.
HashSetInsert_Forget(set, r) == set

\* (mutant) the set is rebuilt around the new reference.
HashSetInsert_Replace(set, r) == {r}

\* HashSet::insert(r): adds r unless an element with equal text is present,
\* in which case the set is left as it is.
HashSetInsert(set, r) ==
    IF \E e \in set : StrEq(Content(e), Content(r)) THEN set ELSE set \cup {r}

\* ---------------------------------------------------------------- Symbol
Symbol(r) == [inner |-> r]

\* Symbol::as_str: the wrapped reference.
as_str(x) == x.inner

\* impl PartialEq for Symbol: the two buffer pointers are compared.
SymbolEq(x, y) == x.inner.ptr = y.inner.ptr

\* impl PartialEq<str> for Symbol, PartialEq<&str> for Symbol.
SymbolEqStr(x, t) == StrEq(Content(x.inner), t)

\* (mutant) only the first Len(t) bytes of the Symbol's text are compared.
StrEqSymbol_Prefix(t, x) ==
    x.inner.len >= Len(t) /\ \A i \in 1..Len(t) : t[i] = Content(x.inner)[i]

\* impl PartialEq<Symbol> for str, PartialEq<Symbol> for &str.
StrEqSymbol(t, x) == StrEq(t, Content(x.inner))

\* What a value writes to the Hasher, as the sequence of Hasher calls.
\* impl Hash for str writes the bytes and then the byte 0xff.
StrHash(t) == <<[write |-> "bytes", val |-> t], [write |-> "u8", val |-> 255]>>

\* (mutant) the Symbol hashes the text it points to.
SymbolHash_Content(x) == StrHash(Content(x.inner))

\* impl Hash for Symbol: self.inner.as_ptr().hash(state), and
\* impl Hash for *const u8 writes the address as one usize.
SymbolHash(x) == <<[write |-> "usize", val |-> x.inner.ptr]>>

\* (mutant) Display delegates to the derived Debug.
SymbolDisplay_Debug(x) == <<"Symbol { inner: ">> \o Content(as_str(x)) \o <<" }">>

\* Display for Symbol: the text the Symbol refers to.
SymbolDisplay(x) == Content(as_str(x))

\* ------------------------------------------------------------------ Init
Init ==
    /\ heap = [a \in Addr |-> FREE]
    /\ leaked = {}
    /\ nleaked = 0
    /\ STRINGS = {}
    /\ once = "incomplete"
    /\ mutex = NoThread
    /\ aborted = FALSE
    /\ poisoned = FALSE
    /\ pc = [t \in Threads |-> "idle"]
    /\ arg = [t \in Threads |-> <<>>]
    /\ s = [t \in Threads |-> NullRef]
    /\ sym = [t \in Threads |-> NoSymbol]
    /\ copy = [t \in Threads |-> NoSymbol]
    /\ returned = {}
    /\ obs = [t \in Threads |-> NoObs]
    /\ via = [t \in Threads |-> "new"]

\* --------------------------------------------------------------- actions
\* Symbol::new(a) calls intern(a.as_ref()), whose first step is
\* STRINGS.deref() of the lazy_static.  The caller's Symbols of its previous
\* round (sym1, sym2 of the tests) are out of scope by now.  A thread that
\* arrives while the initializer runs waits in the Once.
\* (mutant) initialized-or-not is tested without the Once: a thread that
\* arrives while the initializer runs starts it again.
NewFirst_Racy(t, a) ==
    /\ ~aborted
    /\ pc[t] = "idle"
    /\ once # "complete"
    /\ once' = "running"
    /\ pc' = [pc EXCEPT ![t] = "init"]
    /\ arg' = [arg EXCEPT ![t] = a]
    /\ sym' = [sym EXCEPT ![t] = NoSymbol]
    /\ copy' = [copy EXCEPT ![t] = NoSymbol]
    /\ obs' = [obs EXCEPT ![t] = NoObs]
    /\ UNCHANGED <<heap, leaked, nleaked, STRINGS, mutex, aborted, poisoned, s, returned, via>>

\* The first thread to arrive starts the initializer.  v records the entry
\* point the caller used.
EnterFirst(t, a, v) ==
    /\ ~aborted
    /\ pc[t] = "idle"
    /\ once = "incomplete"
    /\ once' = "running"
    /\ pc' = [pc EXCEPT ![t] = "init"]
    /\ arg' = [arg EXCEPT ![t] = a]
    /\ sym' = [sym EXCEPT ![t] = NoSymbol]
    /\ copy' = [copy EXCEPT ![t] = NoSymbol]
    /\ obs' = [obs EXCEPT ![t] = NoObs]
    /\ via' = [via EXCEPT ![t] = v]
    /\ UNCHANGED <<heap, leaked, nleaked, STRINGS, mutex, aborted, poisoned, s, returned>>

NewFirst(t, a) == EnterFirst(t, a, "new")

\* The initializer: Mutex::new(HashSet::new()).
DerefInit(t) ==
    /\ ~aborted
    /\ pc[t] = "init"
    /\ STRINGS' = {}
    /\ mutex' = NoThread
    /\ poisoned' = FALSE
    /\ once' = "complete"
    /\ pc' = [pc EXCEPT ![t] = "lock"]
    /\ UNCHANGED <<heap, leaked, nleaked, aborted, arg, s, sym, copy, returned, obs, via>>

\* Symbol::new(a) once the static is initialized.
Enter(t, a, v) ==
    /\ ~aborted
    /\ pc[t] = "idle"
    /\ once = "complete"
    /\ pc' = [pc EXCEPT ![t] = "lock"]
    /\ arg' = [arg EXCEPT ![t] = a]
    /\ sym' = [sym EXCEPT ![t] = NoSymbol]
    /\ copy' = [copy EXCEPT ![t] = NoSymbol]
    /\ obs' = [obs EXCEPT ![t] = NoObs]
    /\ via' = [via EXCEPT ![t] = v]
    /\ UNCHANGED <<heap, leaked, nleaked, STRINGS, once, mutex, aborted, poisoned, s, returned>>

New(t, a) == Enter(t, a, "new")

\* (mutant) the conversion builds its own Symbol: it leaks a copy of the
\* text and inserts it without taking the lock or looking the text up.
From_Fresh(t, source) ==
    /\ ~aborted
    /\ pc[t] = "idle"
    /\ once = "complete"
    /\ pc' = [pc EXCEPT ![t] = "alloc"]
    /\ arg' = [arg EXCEPT ![t] = source]
    /\ sym' = [sym EXCEPT ![t] = NoSymbol]
    /\ copy' = [copy EXCEPT ![t] = NoSymbol]
    /\ obs' = [obs EXCEPT ![t] = NoObs]
    /\ via' = [via EXCEPT ![t] = "from"]
    /\ UNCHANGED <<heap, leaked, nleaked, STRINGS, once, mutex, aborted, poisoned, s, returned>>

\* impl From<&str> for Symbol: Symbol::new(source).
FromFirst(t, source) == EnterFirst(t, source, "from")
From(t, source) == Enter(t, source, "from")

\* (mutant) the lock is taken without waiting for its holder.
Lock_NoExclusion(t) ==
    /\ ~aborted
    /\ pc[t] = "lock"
    /\ mutex' = t
    /\ pc' = [pc EXCEPT ![t] = "get"]
    /\ UNCHANGED <<heap, leaked, nleaked, STRINGS, once, aborted, poisoned, arg, s, sym, copy, returned, obs, via>>

\* let mut g = STRINGS.lock().unwrap();
\* lock() of a poisoned Mutex returns Err, on which unwrap() panics and the
\* guard inside the error is dropped.
Lock(t) ==
    /\ ~aborted
    /\ pc[t] = "lock"
    /\ mutex = NoThread
    /\ IF poisoned
       THEN /\ pc' = [pc EXCEPT ![t] = "panicked"]
            /\ UNCHANGED mutex
       ELSE /\ pc' = [pc EXCEPT ![t] = "get"]
            /\ mutex' = t
    /\ UNCHANGED <<heap, leaked, nleaked, STRINGS, once, aborted, poisoned, arg, s, sym, copy, returned, obs, via>>

\* match g.get(str) { Some(s) => s, None => ... }
Get(t) ==
    /\ ~aborted
    /\ pc[t] = "get"
    /\ LET hits == HashSetGet(STRINGS, arg[t]) IN
         IF hits # {}
         THEN \E e \in hits :
                /\ s' = [s EXCEPT ![t] = e]
                /\ pc' = [pc EXCEPT ![t] = "ret"]
         ELSE /\ pc' = [pc EXCEPT ![t] = "alloc"]
              /\ s' = s
    /\ UNCHANGED <<heap, leaked, nleaked, STRINGS, once, mutex, aborted, poisoned, arg, sym, copy, returned, obs, via>>

\* (mutant) an allocation failure panics: the thread unwinds out of intern,
\* and its guard, dropped during the panic, poisons the Mutex.
OutOfMemory_Panic(t) ==
    /\ pc' = [pc EXCEPT ![t] = "panicked"]
    /\ poisoned' = TRUE
    /\ mutex' = NoThread
    /\ UNCHANGED aborted

\* The allocator has no room for the String: handle_alloc_error aborts the
\* process.
OutOfMemory(t) ==
    /\ aborted' = TRUE
    /\ UNCHANGED <<pc, poisoned, mutex>>

\* let b = Box::new(str.to_string()); let s = Box::leak(b).as_str();
\* A String of length 0 owns no buffer: its pointer is the dangling one.
\* When the allocator has no room the process is aborted.
Alloc(t) ==
    /\ ~aborted
    /\ pc[t] = "alloc"
    /\ LET bytes == to_string(arg[t])
           n == Len(bytes)
       IN  IF n = 0
           THEN /\ s' = [s EXCEPT ![t] = StrRef(Dangling, 0)]
                /\ leaked' = leaked \cup {StrRef(Dangling, 0)}
                /\ nleaked' = nleaked + 1
                /\ pc' = [pc EXCEPT ![t] = "insert"]
                /\ UNCHANGED <<heap, aborted, poisoned, mutex>>
           ELSE IF FreeBases(heap, n) = {}
           THEN /\ OutOfMemory(t)
                /\ UNCHANGED <<heap, leaked, nleaked, s>>
           ELSE \E b \in FreeBases(heap, n) :
                /\ heap' = Store(heap, b, bytes)
                /\ s' = [s EXCEPT ![t] = StrRef(b, n)]
                /\ leaked' = leaked \cup {StrRef(b, n)}
                /\ nleaked' = nleaked + 1
                /\ pc' = [pc EXCEPT ![t] = "insert"]
                /\ UNCHANGED <<aborted, poisoned, mutex>>
    /\ UNCHANGED <<STRINGS, once, arg, sym, copy, returned, obs, via>>

\* g.insert(s); the table of the HashSet may have to grow, and that
\* allocation (made outside the modelled heap of text buffers) may fail.
Insert(t) ==
    /\ ~aborted
    /\ pc[t] = "insert"
    /\ \/ /\ STRINGS' = HashSetInsert(STRINGS, s[t])
          /\ pc' = [pc EXCEPT ![t] = "ret"]
          /\ UNCHANGED <<mutex, aborted, poisoned>>
       \/ /\ OutOfMemory(t)
          /\ UNCHANGED STRINGS
    /\ UNCHANGED <<heap, leaked, nleaked, once, arg, s, sym, copy, returned, obs, via>>

\* (mutant) the guard is forgotten instead of dropped: the lock stays held.
Return_KeepLock(t) ==
    /\ ~aborted
    /\ pc[t] = "ret"
    /\ sym' = [sym EXCEPT ![t] = Symbol(s[t])]
    /\ returned' = returned \cup {[arg |-> arg[t], sym |-> Symbol(s[t])]}
    /\ pc' = [pc EXCEPT ![t] = "idle"]
    /\ arg' = [arg EXCEPT ![t] = <<>>]
    /\ s' = [s EXCEPT ![t] = NullRef]
    /\ UNCHANGED <<heap, leaked, nleaked, STRINGS, once, mutex, aborted, poisoned, copy, obs, via>>

\* intern returns s and drops the guard g; Symbol::new wraps the result.
Return(t) ==
    /\ ~aborted
    /\ pc[t] = "ret"
    /\ mutex' = NoThread
    /\ sym' = [sym EXCEPT ![t] = Symbol(s[t])]
    /\ returned' = returned \cup {[arg |-> arg[t], sym |-> Symbol(s[t])]}
    /\ pc' = [pc EXCEPT ![t] = "idle"]
    /\ arg' = [arg EXCEPT ![t] = <<>>]
    /\ s' = [s EXCEPT ![t] = NullRef]
    /\ UNCHANGED <<heap, leaked, nleaked, STRINGS, once, aborted, poisoned, copy, obs, via>>

\* What as_str, Symbol == Symbol, Symbol == str, str == Symbol and hash give
\* for Symbol x, compared with Symbol y and with the text c.
Observe(x, y, c) ==
    [other |-> y, str |-> as_str(x), text |-> Content(as_str(x)),
     eq |-> SymbolEq(x, y), eq_str |-> SymbolEqStr(x, c),
     str_eq |-> StrEqSymbol(c, x), hash |-> SymbolHash(x)]

\* The text the threads compare their Symbols with.
Probe == <<"a">>

\* The Symbols the threads hold.
Held == {sym[u] : u \in Threads} \ {NoSymbol}

\* (mutant) the operations go through the pool: they take its lock first.
Use_Locked(t, y) ==
    /\ ~aborted
    /\ pc[t] = "idle"
    /\ sym[t] # NoSymbol
    /\ mutex = NoThread
    /\ obs' = [obs EXCEPT ![t] = Observe(sym[t], y, Probe)]
    /\ UNCHANGED <<heap, leaked, nleaked, STRINGS, once, mutex, aborted, poisoned, pc, arg, s, sym, copy, returned, via>>

\* A thread applies as_str, ==, and hash to the Symbol it holds, comparing
\* it with the Symbol y and with the text Probe.
Use(t, y) ==
    /\ ~aborted
    /\ pc[t] = "idle"
    /\ sym[t] # NoSymbol
    /\ obs' = [obs EXCEPT ![t] = Observe(sym[t], y, Probe)]
    /\ UNCHANGED <<heap, leaked, nleaked, STRINGS, once, mutex, aborted, poisoned, pc, arg, s, sym, copy, returned, via>>

\* (mutant) the copy owns a fresh copy of the text.
Copy_Deep(t) ==
    /\ ~aborted
    /\ pc[t] = "idle"
    /\ sym[t] # NoSymbol
    /\ LET bytes == Content(sym[t].inner) IN
       \E b \in FreeBases(heap, Len(bytes)) :
          /\ heap' = Store(heap, b, bytes)
          /\ copy' = [copy EXCEPT ![t] = Symbol(StrRef(b, Len(bytes)))]
    /\ UNCHANGED <<leaked, nleaked, STRINGS, once, mutex, aborted, poisoned, pc, arg, s, sym, returned, obs, via>>

\* #[derive(Clone, Copy)]: let sym2 = sym1; duplicates the reference.
Copy(t) ==
    /\ ~aborted
    /\ pc[t] = "idle"
    /\ sym[t] # NoSymbol
    /\ copy' = [copy EXCEPT ![t] = sym[t]]
    /\ UNCHANGED <<heap, leaked, nleaked, STRINGS, once, mutex, aborted, poisoned, pc, arg, s, sym, returned, obs, via>>

\* Any step of thread t.
ThreadStep(t) ==
        \/ \E a \in Texts : NewFirst(t, a)
        \/ DerefInit(t)
        \/ \E a \in Texts : New(t, a)
        \/ Lock(t)
        \/ Get(t)
        \/ Alloc(t)
        \/ Insert(t)
        \/ Return(t)
        \/ Copy(t)

Next == \E t \in Threads : ThreadStep(t)

Spec == Init /\ [][Next]_vars

\* The threads also apply the operations of Symbol to the Symbols they hold.
UseTexts == {<<"a">>, <<"b">>}

UseNext ==
    \E t \in Threads :
        \/ \E a \in UseTexts : NewFirst(t, a)
        \/ \E a \in UseTexts : New(t, a)
        \/ Lock(t)
        \/ DerefInit(t) \/ Get(t) \/ Alloc(t) \/ Insert(t) \/ Return(t)
        \/ Copy(t)
        \/ \E y \in Held : Use(t, y)

UseSpec == Init /\ [][UseNext]_vars

\* The steps of a call of thread t that need nothing but the thread to run.
CallStep(t) == DerefInit(t) \/ Get(t) \/ Alloc(t) \/ Insert(t) \/ Return(t)

\* The threads obtain their Symbols through Symbol::new or Symbol::from.
ConvTexts == {<<>>, <<"a">>, <<"a", "b">>}

ConvNext ==
    \E t \in Threads :
        \/ \E a \in ConvTexts : NewFirst(t, a)
        \/ \E a \in ConvTexts : New(t, a)
        \/ \E a \in ConvTexts : FromFirst(t, a)
        \/ \E a \in ConvTexts : From(t, a)
        \/ Lock(t)
        \/ CallStep(t)

ConvSpec == Init /\ [][ConvNext]_vars

\* The texts of the threads that do nothing but intern.
LiveTexts == {<<"a">>, <<"b">>, <<"a", "b">>}

LiveNext ==
    \E t \in Threads :
        \/ \E a \in LiveTexts : NewFirst(t, a)
        \/ \E a \in LiveTexts : New(t, a)
        \/ Lock(t)
        \/ CallStep(t)

\* Fair scheduling: a thread inside a call keeps running, and a thread that
\* requests the lock gets it if the lock is free again and again.
LiveSpec ==
    /\ Init
    /\ [][LiveNext]_vars
    /\ \A t \in Threads : WF_vars(CallStep(t)) /\ SF_vars(Lock(t))

\* ---------------------------------------------------------------- claims
\* The texts handed to completed Symbol::new calls so far.
Interned == {r.arg : r \in returned}
\* No interning call is in progress.
AllIdle == \A t \in Threads : pc[t] = "idle"

\* C1: any two Symbol::new calls with the same text, made by the same thread
\* or by different threads in any interleaving, return Symbols that are
\* identity-equal and whose as_str() references have the same address.
C1_SameTextSameSymbol ==
    \A r1 \in returned : \A r2 \in returned :
        StrEq(r1.arg, r2.arg) =>
            /\ SymbolEq(r1.sym, r2.sym)
            /\ SymbolEq(r2.sym, r1.sym)
            /\ as_str(r1.sym).ptr = as_str(r2.sym).ptr

\* C1 witness: two threads hold a Symbol for the same text of two bytes at
\* the same time, other texts having been interned too.
C1_Witness ==
    /\ Cardinality(Interned) >= 2
    /\ \E t1 \in Threads : \E t2 \in Threads \ {t1} :
        /\ sym[t1] # NoSymbol
        /\ sym[t2] # NoSymbol
        /\ SymbolEq(sym[t1], sym[t2])
        /\ Content(as_str(sym[t1])) = <<"a", "b">>

\* C2: Symbols returned for two different texts are never identity-equal
\* and their as_str() addresses differ.
C2_DifferentTextDifferentSymbol ==
    \A r1 \in returned : \A r2 \in returned :
        ~StrEq(r1.arg, r2.arg) =>
            /\ ~SymbolEq(r1.sym, r2.sym)
            /\ as_str(r1.sym).ptr # as_str(r2.sym).ptr

\* C2 witness: Symbols were returned for two different texts of the same
\* length and for a text one of them is a prefix of.
C2_Witness ==
    /\ \E r1 \in returned : \E r2 \in returned :
        r1.arg # r2.arg /\ Len(r1.arg) = Len(r2.arg)
    /\ \E r1 \in returned : \E r2 \in returned :
        Len(r1.arg) = 1 /\ Len(r2.arg) = 2 /\ r2.arg[1] = r1.arg[1]

\* C3: round trip: the text of the Symbol returned by Symbol::new(a) is a,
\* whether a was in the pool before the call or not.
C3_RoundTrip ==
    \A r \in returned : StrEq(Content(as_str(r.sym)), r.arg)

\* C3 witness: a thread is about to return an entry it found in the pool
\* (the text was interned before), and a text of two bytes was returned.
C3_Witness ==
    /\ \E r \in returned : Len(r.arg) = 2
    /\ \E t \in Threads : \E r \in returned :
        pc[t] = "ret" /\ r.arg = arg[t] /\ Len(arg[t]) >= 1

\* C4: when no interning call is in progress, the pool holds exactly one
\* entry per distinct text interned so far: no two entries have equal text,
\* the texts of the entries are the texts interned, and there are as many
\* entries as distinct texts interned.
C4_OneCopyPerText ==
    AllIdle =>
        /\ \A e1 \in STRINGS : \A e2 \in STRINGS :
              StrEq(Content(e1), Content(e2)) => e1 = e2
        /\ {Content(e) : e \in STRINGS} = Interned
        /\ Cardinality(STRINGS) = Cardinality(Interned)

\* C4 witness: every text was interned and no call is in progress.
C4_Witness == AllIdle /\ Interned = Texts

\* C5: the pool is insert-only and its entries are permanent: no step
\* removes an entry or changes the bytes it points to, and every Symbol
\* returned so far keeps its address and its text.
C5_EntriesPermanent ==
    [][/\ \A e \in STRINGS : e \in STRINGS' /\ ContentIn(heap', e) = ContentIn(heap, e)
       /\ \A r \in returned :
            /\ r \in returned'
            /\ ContentIn(heap', as_str(r.sym)) = ContentIn(heap, as_str(r.sym))]_vars

\* C5 witness: a thread still holds the Symbol of the first entry while the
\* pool has grown to hold every text.
C5_Witness ==
    /\ Cardinality(STRINGS) = Cardinality(Texts)
    /\ \E t \in Threads : sym[t] # NoSymbol /\ as_str(sym[t]) \in STRINGS

\* C6: a Symbol compares equal to a raw text, in both directions, exactly
\* when its text is that text: Symbol::new(a) == t and t == Symbol::new(a)
\* hold for t = a and are false for every other t.
C6_CrossTypeEquality ==
    \A r \in returned : \A t \in Texts :
        /\ SymbolEqStr(r.sym, t) <=> StrEq(Content(as_str(r.sym)), t)
        /\ StrEqSymbol(t, r.sym) <=> StrEq(Content(as_str(r.sym)), t)
        /\ SymbolEqStr(r.sym, t) <=> (t = r.arg)
        /\ StrEqSymbol(t, r.sym) <=> (t = r.arg)

\* C6 witness: Symbols exist for a text and for a proper prefix of it.
C6_Witness ==
    \E r1 \in returned : \E r2 \in returned :
        /\ Len(r1.arg) = 1 /\ Len(r2.arg) = 2 /\ r2.arg[1] = r1.arg[1]
        /\ SymbolEqStr(r1.sym, r1.arg) /\ ~SymbolEqStr(r2.sym, r1.arg)

\* C7: copying a Symbol yields a Symbol with the same address that is
\* identity-equal to its source, and changes neither the heap nor the pool.
C7_CopyIsShallow ==
    [][\A t \in Threads :
         (copy'[t] # copy[t] /\ copy'[t] # NoSymbol) =>
            /\ as_str(copy'[t]).ptr = as_str(sym[t]).ptr
            /\ as_str(copy'[t]).len = as_str(sym[t]).len
            /\ SymbolEq(copy'[t], sym[t])
            /\ UNCHANGED <<heap, leaked, nleaked, STRINGS, mutex, once>>]_vars

\* C7 witness: a thread holds a Symbol of a non-empty text and its copy.
C7_Witness ==
    \E t \in Threads :
        /\ copy[t] # NoSymbol
        /\ copy[t] = sym[t]
        /\ as_str(copy[t]).len > 0

\* C8: displaying Symbol::new(a) produces exactly a.
C8_DisplayIsContent ==
    \A r \in returned : SymbolDisplay(r.sym) = r.arg

\* C8 witness: Symbols for the empty text and for a text of two bytes have
\* been returned.
C8_Witness ==
    /\ \E r \in returned : r.arg = <<>>
    /\ \E r \in returned : r.arg = <<"a", "b">>

\* C9: the only value a Symbol feeds to the hasher is its address, two
\* Symbols feed the same input exactly when their addresses are equal, and
\* what Symbol::new(a) feeds differs from what the raw text a feeds.
C9_HashOfAddress ==
    \A r1 \in returned :
        /\ Len(SymbolHash(r1.sym)) = 1
        /\ SymbolHash(r1.sym)[1].write = "usize"
        /\ SymbolHash(r1.sym)[1].val = as_str(r1.sym).ptr
        /\ SymbolHash(r1.sym) # StrHash(r1.arg)
        /\ \A r2 \in returned :
              (SymbolHash(r1.sym) = SymbolHash(r2.sym))
                  <=> (as_str(r1.sym).ptr = as_str(r2.sym).ptr)

\* C9 witness: Symbols for three different texts have been returned.
C9_Witness == Cardinality({r.sym : r \in returned}) >= 3

\* C10: the Symbol of the empty text has an empty text, any two Symbols of
\* the empty text are identity-equal, and a Symbol of the empty text is not
\* identity-equal to, and has another address than, a Symbol of a non-empty
\* text.
C10_EmptyText ==
    \A r1 \in returned :
        r1.arg = <<>> =>
            /\ Len(Content(as_str(r1.sym))) = 0
            /\ as_str(r1.sym).len = 0
            /\ \A r2 \in returned :
                  IF r2.arg = <<>>
                  THEN SymbolEq(r1.sym, r2.sym)
                  ELSE /\ ~SymbolEq(r1.sym, r2.sym)
                       /\ ~SymbolEq(r2.sym, r1.sym)
                       /\ as_str(r1.sym).ptr # as_str(r2.sym).ptr

\* C10 witness: two threads hold the Symbol of the empty text, which was
\* interned after a non-empty text.
C10_Witness ==
    /\ \E r \in returned : r.arg # <<>>
    /\ \E t1 \in Threads : \E t2 \in Threads \ {t1} :
        /\ sym[t1] # NoSymbol
        /\ sym[t1] = sym[t2]
        /\ \E r \in returned : r.arg = <<>> /\ r.sym = sym[t1]

\* A text equal to a is an entry of the pool.
InPool(a) == \E e \in STRINGS : StrEq(Content(e), a)
\* Thread t is between acquiring the lock and returning from intern.
InCritical(t) == pc[t] \in {"get", "alloc", "insert", "ret"}
\* Thread t waits: for the lock another thread holds, or (before its call
\* has done anything) for the initializer another thread runs.
Waiting(t) ==
    \/ pc[t] = "lock" /\ mutex # NoThread
    \/ pc[t] = "idle" /\ once = "running"

\* C11: interning is total: no call ever fails or ends in an error (no
\* thread panics), the process is only ever aborted by an allocation that
\* fails inside intern, and in every other state every call that is not
\* waiting can be made or can take its next step, for every text.
C11_InternIsTotal ==
    /\ \A t \in Threads : pc[t] # "panicked"
    /\ ~poisoned
    /\ aborted => \E t \in Threads :
          /\ mutex = t
          /\ \/ pc[t] = "insert"
             \/ pc[t] = "alloc" /\ FreeBases(heap, Len(arg[t])) = {}
    /\ ~aborted => \A t \in Threads :
          /\ (pc[t] = "idle" /\ ~Waiting(t)) =>
                \A a \in Texts : ENABLED (NewFirst(t, a) \/ New(t, a))
          /\ (pc[t] # "idle" /\ ~Waiting(t)) => ENABLED ThreadStep(t)

\* C11 witness: every text is interned, one thread is about to return from
\* a call and another one is in a call, waiting for the lock.
C11_Witness ==
    /\ ~aborted
    /\ {Content(e) : e \in STRINGS} = Texts
    /\ \E t1 \in Threads : \E t2 \in Threads :
          pc[t1] = "ret" /\ pc[t2] = "lock"

\* C13: lookup and insert are indivisible: at most one thread is between
\* acquiring the lock and returning, it is the holder of the lock, and the
\* lookup that failed for it still fails when it allocates and inserts.
C13_LookupInsertIndivisible ==
    /\ \A t1 \in Threads : \A t2 \in Threads :
          (InCritical(t1) /\ InCritical(t2)) => t1 = t2
    /\ \A t \in Threads : InCritical(t) <=> mutex = t
    /\ \A t \in Threads : pc[t] \in {"alloc", "insert"} => ~InPool(arg[t])

\* C13 witness: a thread is about to insert a text while another thread,
\* called with the same text, waits for the lock.
C13_Witness ==
    \E t1 \in Threads : \E t2 \in Threads :
        /\ pc[t1] = "insert"
        /\ pc[t2] = "lock"
        /\ arg[t1] = arg[t2]

\* C14: a call whose text is in the pool goes from the lookup straight to
\* the return with the address of the existing entry, and none of its steps
\* (lock, lookup, return) allocates or changes the pool.
C14_HitReturnsExisting ==
    [][\A t \in Threads :
         /\ (pc[t] = "lock" /\ pc'[t] # "lock") =>
               UNCHANGED <<STRINGS, heap, leaked, nleaked>>
         /\ (pc[t] = "get" /\ pc'[t] # "get" /\ InPool(arg[t])) =>
               /\ pc'[t] = "ret"
               /\ s'[t] \in STRINGS
               /\ StrEq(Content(s'[t]), arg[t])
               /\ UNCHANGED <<STRINGS, heap, leaked, nleaked>>
         /\ (pc[t] = "ret" /\ pc'[t] # "ret") =>
               /\ pc'[t] = "idle"
               /\ as_str(sym'[t]) = s[t]
               /\ UNCHANGED <<STRINGS, heap, leaked, nleaked>>]_vars

\* C14 witness: a thread is about to return an entry that was returned
\* before its call, every leaked copy being an entry.
C14_Witness ==
    \E t \in Threads : \E r \in returned :
        /\ pc[t] = "ret"
        /\ as_str(r.sym) = s[t]
        /\ nleaked = Cardinality(STRINGS)

\* C15: a call whose text is not in the pool allocates one new copy of the
\* text at an address no existing entry has, leaving the existing entries'
\* bytes alone, inserts exactly that reference, and returns it.
C15_MissAddsOneEntry ==
    [][\A t \in Threads :
         /\ (pc[t] = "get" /\ pc'[t] # "get" /\ ~InPool(arg[t])) =>
               pc'[t] = "alloc" /\ UNCHANGED <<STRINGS, heap, leaked, nleaked>>
         /\ (pc[t] = "alloc" /\ pc'[t] # "alloc") =>
               /\ pc'[t] = "insert"
               /\ StrEq(ContentIn(heap', s'[t]), arg[t])
               /\ \A e \in STRINGS :
                     /\ e.ptr # s'[t].ptr
                     /\ ContentIn(heap', e) = ContentIn(heap, e)
               /\ nleaked' = nleaked + 1
               /\ leaked' = leaked \cup {s'[t]}
               /\ UNCHANGED STRINGS
         /\ (pc[t] = "insert" /\ pc'[t] # "insert") =>
               /\ pc'[t] = "ret"
               /\ s[t] \notin STRINGS
               /\ STRINGS' = STRINGS \cup {s[t]}
               /\ Cardinality(STRINGS') = Cardinality(STRINGS) + 1
               /\ UNCHANGED <<s, heap, leaked, nleaked>>
         /\ (pc[t] = "ret" /\ pc'[t] # "ret") =>
               /\ as_str(sym'[t]) = s[t]
               /\ s[t] \in STRINGS
               /\ UNCHANGED <<STRINGS, heap, leaked, nleaked>>]_vars

\* C15 witness: a thread is about to return an entry it has just added to
\* a pool of at least two other entries, and that no call returned yet.
C15_Witness ==
    \E t \in Threads :
        /\ pc[t] = "ret"
        /\ s[t] \in STRINGS
        /\ Cardinality(STRINGS) >= 3
        /\ \A r \in returned : as_str(r.sym) # s[t]

\* C17: the pool is created empty exactly once: at most one thread runs the
\* initializer, it runs exactly while the Once is running, it leaves an
\* empty pool, the Once never leaves the complete state, threads use the
\* pool only once it is complete, and no step drops an entry.
C17_InitializedOnce ==
    [][/\ Cardinality({t \in Threads : pc[t] = "init"}) <= 1
       /\ (once = "running") <=> (\E t \in Threads : pc[t] = "init")
       /\ \A t \in Threads : (pc[t] \notin {"idle", "init"}) => once = "complete"
       /\ (once = "complete") => (once' = "complete")
       /\ (once # "complete" /\ once' = "complete") => STRINGS' = {}
       /\ (once # "complete") => (STRINGS = {} /\ leaked = {})
       /\ STRINGS \subseteq STRINGS']_vars

\* C17 witness: the pool holds entries of calls by different threads, one
\* of which ran the initializer, while a further call is under way.
C17_Witness ==
    /\ once = "complete"
    /\ Cardinality(STRINGS) >= 2
    /\ \E t1 \in Threads : \E t2 \in Threads \ {t1} :
          /\ sym[t1] # NoSymbol
          /\ pc[t2] = "get"

\* C18: whenever the lock is free, every leaked copy is an entry of the
\* pool: there are as many leaked Strings as entries, and they are the
\* entries.
C18_NoPartialFailure ==
    mutex = NoThread => (leaked = STRINGS /\ nleaked = Cardinality(STRINGS))

\* C18 witness: the lock is free after calls that added entries.
C18_Witness ==
    /\ mutex = NoThread
    /\ nleaked >= 3
    /\ \E t \in Threads : pc[t] = "lock"

C16_SymbolOpsLeavePoolAlone ==
    /\ [][\A t \in Threads :
            ((\E y \in Held : Use(t, y)) \/ Copy(t)) =>
                UNCHANGED <<heap, leaked, nleaked, STRINGS, mutex, once, poisoned>>]_vars
    /\ [](\A t \in Threads :
            (~aborted /\ pc[t] = "idle" /\ sym[t] # NoSymbol) =>
                /\ ENABLED (\E y \in Held : Use(t, y))
                /\ ENABLED Copy(t))
    /\ [](\A t \in Threads :
            obs[t] # NoObs => obs[t] = Observe(sym[t], obs[t].other, Probe))

\* C16 witness: a thread has applied the operations to its Symbol and found
\* it equal to the text it was compared with, it has copied the Symbol, and
\* another thread, which holds the lock, is about to return a reference
\* that no call has returned before.
C16_Witness ==
    \E t \in Threads : \E u \in Threads \ {t} :
        /\ obs[t] # NoObs
        /\ obs[t].eq_str
        /\ copy[t] = sym[t]
        /\ mutex = u
        /\ pc[u] = "ret"
        /\ s[u] \notin {r.sym.inner : r \in returned}

\* C19: a call of Symbol::from(a) does what a call of Symbol::new(a) does.
\* Its steps change the pool only by adding one entry with the text a, and
\* only when no entry has that text; the Symbol it returns wraps the entry
\* with the text a, which is the entry a later Symbol::new(a) finds; and a
\* Symbol from Symbol::from and a Symbol from Symbol::new with the same
\* text are identity-equal.
C19_FromIsNew ==
    /\ [][\A t \in Threads :
            (via[t] = "from" /\ pc'[t] # pc[t] /\ pc[t] # "idle") =>
                /\ pc[t] # "insert" => STRINGS' = STRINGS
                /\ (pc[t] = "insert" /\ ~aborted') =>
                      /\ ~InPool(arg[t])
                      /\ STRINGS \subseteq STRINGS'
                      /\ Cardinality(STRINGS') = Cardinality(STRINGS) + 1
                      /\ \A e \in STRINGS' \ STRINGS : StrEq(Content(e), arg[t])
                /\ pc[t] = "ret" =>
                      /\ HashSetGet(STRINGS, arg[t]) = {as_str(sym'[t])}
                      /\ StrEq(Content(as_str(sym'[t])), arg[t])]_vars
    /\ [](\A t \in Threads : \A u \in Threads :
            (/\ via[t] = "from" /\ pc[t] = "idle" /\ sym[t] # NoSymbol
             /\ via[u] = "new" /\ pc[u] = "idle" /\ sym[u] # NoSymbol) =>
                (SymbolEq(sym[t], sym[u])
                    <=> StrEq(Content(as_str(sym[t])), Content(as_str(sym[u])))))

\* C19 witness: one thread holds the Symbol of a two-character text from
\* Symbol::from and another thread the Symbol of the same text from
\* Symbol::new, and the two are identity-equal.
C19_Witness ==
    \E t \in Threads : \E u \in Threads \ {t} :
        /\ via[t] = "from" /\ pc[t] = "idle" /\ sym[t] # NoSymbol
        /\ via[u] = "new" /\ pc[u] = "idle" /\ sym[u] # NoSymbol
        /\ SymbolEq(sym[t], sym[u])
        /\ Len(Content(as_str(sym[t]))) = 2

====
